---- MODULE Spec2Model ----
(***************************************************************************)
(* Model of the reusable asynchronous helpers of the Debug-Me repository:  *)
(*   - retryOperation and withFallback, the closures defined in            *)
(*     ErrorHandling.errorRecovery (src/src/errors/try-catch.js), and      *)
(*   - createTrackedPromise, the operation tracker of AsyncDebugging       *)
(*     (src/src/async/promises.js).                                        *)
(* Every await is a suspension point: a call is a small state machine      *)
(* whose position is kept in a pc variable, and the settlement of the      *)
(* awaited promise is a step of the environment.  Promise reactions run    *)
(* from a FIFO job queue, as the ECMAScript job queue does.  Console       *)
(* output is not part of the state.                                        *)
(***************************************************************************)
EXTENDS Integers, Sequences, FiniteSets, TLC

(***************************************************************************)
(* Bounds of the model.                                                    *)
(***************************************************************************)
MaxRetriesBound == 4
MaxTracked == 2

(***************************************************************************)
(* Program constants.                                                      *)
(***************************************************************************)
DefaultMaxRetries == 3
BaseDelay == 100

(***************************************************************************)
(* Values an operation can produce.  An operation settles with a value, or *)
(* rejects with an Error, or throws an Error when invoked; the payload of  *)
(* a failure is the message of the Error.                                  *)
(***************************************************************************)
Values == {"P", "F"}
Reasons == {"A", "B"}
Undefined == "undefined"

Outcomes ==
    [kind : {"fulfilled"}, payload : Values]
        \cup [kind : {"rejected", "thrown"}, payload : Reasons]

Failed(o) == o.kind # "fulfilled"

VARIABLES
    \* ---- retryOperation: one entry per call ----
    operation,     \* the operation argument: its outcome at the i-th invocation
    maxRetries,    \* the maxRetries argument
    attempt,       \* the local variable attempt
    opCalls,       \* number of times operation has been invoked by the call
    opInFlight,    \* invocations of operation that have not settled yet
    waits,         \* the delays of the timers the call has set, in order
    rpc,           \* position of the call
    rResult,       \* settlement of the promise returned by the call
    \* ---- withFallback: one entry per call ----
    primaryOperation,   \* outcome of the primaryOperation argument
    fallbackOperation,  \* outcome of the fallbackOperation argument
    primaryCalls,       \* number of invocations of primaryOperation
    fallbackCalls,      \* number of invocations of fallbackOperation
    fInFlight,          \* which operation of the call has not settled yet
    fpc,                \* position of the call
    fResult,            \* settlement of the promise returned by the call
    \* ---- AsyncDebugging tracker ----
    pendingOperations,    \* this.pendingOperations, a Set of names
    completedOperations,  \* this.completedOperations, an array of records
    opName,               \* name each tracked operation was registered under
    opState,              \* state of the promise the factory returned
    opOutcome,            \* what that promise settled with
    thenState,            \* state of the promise returned by .then(...)
    trackedResult,        \* settlement of the promise returned by .catch(...)
    jobs,                 \* the promise job queue
    settleOrder,          \* the tracked operations in the order they settled
    \* ---- monitorPendingOperations ----
    monitorTimers,   \* number of setTimeout(monitor, 50) timers not yet fired
    monitorReports,  \* number of times completion has been reported
    monitorTicks,    \* number of times monitor has run, counted up to MaxTicks
    \* ---- raceConditionsDebugging ----
    sharedResource,  \* the local variable sharedResource
    incDelay,        \* the delay argument of each increment task
    incCurrent,      \* the local variable current of each increment task
    incPc,           \* position of each increment task
    \* ---- BankAccount ----
    balance,         \* this.balance
    transactions,    \* this.transactions
    initialBalance,  \* the initialBalance argument of the constructor
    deposited,       \* sum of the amounts of the deposits that returned
    withdrawn,       \* sum of the amounts of the withdrawals that returned
    bankCall,        \* the last method call: method, amount and what it threw
    \* ---- DebugMaster ----
    currentDemo,     \* this.currentDemo
    demoArg,         \* the demoName argument of the runDemo call in progress
    demoPc,          \* position of the runDemo call
    demoResult,      \* settlement of the promise runDemo returned
    demoCaller,      \* who made the runDemo call
    demoCalls,       \* number of runDemo calls made from outside the class
    runState,        \* state of the promise the run method of the demo returned
    allPc,           \* position of the runAllDemos call
    allIndex,        \* how many entries of this.modules the loop has taken
    demoLog,         \* the names runAllDemos has passed to runDemo, in order
    demoErrors       \* the demos for which runDemo has logged an error

retryVars == <<operation, maxRetries, attempt, opCalls, opInFlight, waits,
               rpc, rResult>>
fallbackVars == <<primaryOperation, fallbackOperation, primaryCalls,
                  fallbackCalls, fInFlight, fpc, fResult>>
trackerVars == <<pendingOperations, completedOperations, opName, opState,
                 opOutcome, thenState, trackedResult, jobs, settleOrder>>
monitorVars == <<monitorTimers, monitorReports, monitorTicks>>
raceVars == <<sharedResource, incDelay, incCurrent, incPc>>
bankVars == <<balance, transactions, initialBalance, deposited, withdrawn,
              bankCall>>
masterVars == <<currentDemo, demoArg, demoPc, demoResult, demoCaller,
                demoCalls, runState, allPc, allIndex, demoLog,
                demoErrors>>
otherVars == <<monitorVars, raceVars, bankVars, masterVars>>
vars == <<retryVars, fallbackVars, trackerVars, otherVars>>

PendingResult == [status |-> "pending", value |-> Undefined]
Fulfilled(v) == [status |-> "fulfilled", value |-> v]
Rejected(m) == [status |-> "rejected", value |-> m]

(***************************************************************************)
(* States in which a component has no call in progress.                    *)
(***************************************************************************)
NoRetryCalls ==
    /\ operation = <<>> /\ maxRetries = <<>> /\ attempt = <<>>
    /\ opCalls = <<>> /\ opInFlight = <<>> /\ waits = <<>>
    /\ rpc = <<>> /\ rResult = <<>>

NoFallbackCalls ==
    /\ primaryOperation = <<>> /\ fallbackOperation = <<>>
    /\ primaryCalls = <<>> /\ fallbackCalls = <<>>
    /\ fInFlight = <<>> /\ fpc = <<>> /\ fResult = <<>>

NoTracker ==
    /\ pendingOperations = {} /\ completedOperations = <<>>
    /\ opName = <<>> /\ opState = <<>> /\ opOutcome = <<>>
    /\ thenState = <<>> /\ trackedResult = <<>> /\ jobs = <<>>
    /\ settleOrder = <<>>

NoCall == [n |-> 0, method |-> "none", amount |-> 0, threw |-> "none"]

NoMonitor == monitorTimers = 0 /\ monitorReports = 0 /\ monitorTicks = 0

NoRace ==
    /\ sharedResource = 0 /\ incDelay = <<>> /\ incCurrent = <<>>
    /\ incPc = <<>>

NoBank ==
    /\ balance = 0 /\ transactions = <<>> /\ initialBalance = 0
    /\ deposited = 0 /\ withdrawn = 0 /\ bankCall = NoCall

NoMaster ==
    /\ currentDemo = "null" /\ demoArg = "null" /\ demoPc = "idle"
    /\ demoResult = PendingResult /\ demoCaller = "none"
    /\ demoCalls = 0 /\ runState = "none"
    /\ allPc = "idle" /\ allIndex = 0 /\ demoLog = <<>>
    /\ demoErrors = {}

(***************************************************************************)
(* retryOperation (try-catch.js, lines 274-303).                           *)
(*                                                                         *)
(* Positions of a call: "while" at the loop test, "await_op" suspended at  *)
(* `await operation()`, "await_timer" suspended at the backoff timer,      *)
(* "done" once the returned promise has settled.                           *)
(***************************************************************************)
RetryCalls == DOMAIN rpc

\* The outcome of the i-th invocation of the operation of call c; an
\* operation invoked more often than its description is long keeps behaving
\* as in its last entry.
OutcomeAt(c, i) ==
    LET n == Len(operation[c]) IN operation[c][IF i > n THEN n ELSE i]

\* Mutant of LoopCondition: the test comes after the body, as in a
\* do-while loop.
LoopCondition_DoWhile(a, m) == a < m \/ a = 0

\* Mutant of LoopCondition: the loop stops one attempt short.
LoopCondition_Short(a, m) == a < m - 1

\* while (attempt < maxRetries)
LoopCondition(a, m) == a < m

\* Mutant of Exhausted: the test is off by one and lets the loop go on.
Exhausted_Late(a, m) == a > m

\* if (attempt >= maxRetries)
Exhausted(a, m) == a >= m

\* `Operation failed after ${maxRetries} attempts: ${error.message}`
ExhaustedMessage(m, msg) ==
    "Operation failed after " \o ToString(m) \o " attempts: " \o msg

\* Mutant of BackoffDelay: the delay doubles with every attempt.
BackoffDelay_Doubling(a) == BaseDelay * 2 ^ (a - 1)

\* setTimeout(resolve, 100 * attempt)
BackoffDelay(a) == BaseDelay * a

\* Mutant of RetryReturn: the return statement is missing, so the loop
\* goes round again after a success.
RetryReturn_Continue(c, v) ==
    /\ rpc' = [rpc EXCEPT ![c] = "while"]
    /\ UNCHANGED <<attempt, waits, rResult>>

\* return result;
RetryReturn(c, v) ==
    /\ rResult' = [rResult EXCEPT ![c] = Fulfilled(v)]
    /\ rpc' = [rpc EXCEPT ![c] = "done"]
    /\ UNCHANGED <<attempt, waits>>

\* Mutant of RetryCatch: the failure raised on exhaustion wraps the Error of
\* the first failed invocation instead of the one just caught.
RetryCatch_FirstReason(c, msg) ==
    LET a == attempt[c] + 1 IN
    /\ attempt' = [attempt EXCEPT ![c] = a]
    /\ IF Exhausted(a, maxRetries[c])
         THEN /\ rResult' = [rResult EXCEPT ![c] =
                                Rejected(ExhaustedMessage(maxRetries[c],
                                                          OutcomeAt(c, 1).payload))]
              /\ rpc' = [rpc EXCEPT ![c] = "done"]
              /\ UNCHANGED waits
         ELSE /\ waits' = [waits EXCEPT ![c] = Append(@, BackoffDelay(a))]
              /\ rpc' = [rpc EXCEPT ![c] = "await_timer"]
              /\ UNCHANGED rResult

\* Mutant of RetryCatch: a failed invocation is counted twice.
RetryCatch_DoubleCount(c, msg) ==
    LET a == attempt[c] + 2 IN
    /\ attempt' = [attempt EXCEPT ![c] = a]
    /\ IF Exhausted(a, maxRetries[c])
         THEN /\ rResult' = [rResult EXCEPT ![c] =
                                Rejected(ExhaustedMessage(maxRetries[c], msg))]
              /\ rpc' = [rpc EXCEPT ![c] = "done"]
              /\ UNCHANGED waits
         ELSE /\ waits' = [waits EXCEPT ![c] = Append(@, BackoffDelay(a))]
              /\ rpc' = [rpc EXCEPT ![c] = "await_timer"]
              /\ UNCHANGED rResult

\* Mutant of RetryCatch: attempt is one counter declared outside the
\* function, so a failure in one call counts in every call.
RetryCatch_SharedCounter(c, msg) ==
    LET a == attempt[c] + 1 IN
    /\ attempt' = [d \in DOMAIN attempt |-> attempt[d] + 1]
    /\ IF Exhausted(a, maxRetries[c])
         THEN /\ rResult' = [rResult EXCEPT ![c] =
                                Rejected(ExhaustedMessage(maxRetries[c], msg))]
              /\ rpc' = [rpc EXCEPT ![c] = "done"]
              /\ UNCHANGED waits
         ELSE /\ waits' = [waits EXCEPT ![c] = Append(@, BackoffDelay(a))]
              /\ rpc' = [rpc EXCEPT ![c] = "await_timer"]
              /\ UNCHANGED rResult

\* The catch block, entered with the Error whose message is msg.
RetryCatch(c, msg) ==
    LET a == attempt[c] + 1 IN
    /\ attempt' = [attempt EXCEPT ![c] = a]
    /\ IF Exhausted(a, maxRetries[c])
         THEN /\ rResult' = [rResult EXCEPT ![c] =
                                Rejected(ExhaustedMessage(maxRetries[c], msg))]
              /\ rpc' = [rpc EXCEPT ![c] = "done"]
              /\ UNCHANGED waits
         ELSE /\ waits' = [waits EXCEPT ![c] = Append(@, BackoffDelay(a))]
              /\ rpc' = [rpc EXCEPT ![c] = "await_timer"]
              /\ UNCHANGED rResult

\* The loop test fails: the function body ends without a return statement.
RetryFallOff(c) ==
    /\ rpc[c] = "while"
    /\ ~LoopCondition(attempt[c], maxRetries[c])
    /\ rResult' = [rResult EXCEPT ![c] = Fulfilled(Undefined)]
    /\ rpc' = [rpc EXCEPT ![c] = "done"]
    /\ UNCHANGED <<operation, maxRetries, attempt, opCalls, opInFlight, waits>>
    /\ UNCHANGED <<fallbackVars, trackerVars, otherVars>>

\* The loop test holds and operation() returns a promise, which is awaited.
RetryInvoke(c) ==
    /\ rpc[c] = "while"
    /\ LoopCondition(attempt[c], maxRetries[c])
    /\ OutcomeAt(c, opCalls[c] + 1).kind # "thrown"
    /\ opCalls' = [opCalls EXCEPT ![c] = @ + 1]
    /\ opInFlight' = [opInFlight EXCEPT ![c] = @ + 1]
    /\ rpc' = [rpc EXCEPT ![c] = "await_op"]
    /\ UNCHANGED <<operation, maxRetries, attempt, waits, rResult>>
    /\ UNCHANGED <<fallbackVars, trackerVars, otherVars>>

\* Mutant of RetryInvokeThrows: operation() is called outside the try
\* block, so what it throws leaves the function.
RetryInvokeThrows_Uncaught(c) ==
    /\ rpc[c] = "while"
    /\ LoopCondition(attempt[c], maxRetries[c])
    /\ OutcomeAt(c, opCalls[c] + 1).kind = "thrown"
    /\ opCalls' = [opCalls EXCEPT ![c] = @ + 1]
    /\ rResult' = [rResult EXCEPT ![c] =
                      Rejected(OutcomeAt(c, opCalls[c] + 1).payload)]
    /\ rpc' = [rpc EXCEPT ![c] = "done"]
    /\ UNCHANGED <<operation, maxRetries, attempt, opInFlight, waits>>
    /\ UNCHANGED <<fallbackVars, trackerVars, otherVars>>

\* The loop test holds and operation() throws: the catch block runs at once.
RetryInvokeThrows(c) ==
    /\ rpc[c] = "while"
    /\ LoopCondition(attempt[c], maxRetries[c])
    /\ OutcomeAt(c, opCalls[c] + 1).kind = "thrown"
    /\ opCalls' = [opCalls EXCEPT ![c] = @ + 1]
    /\ RetryCatch(c, OutcomeAt(c, opCalls[c] + 1).payload)
    /\ UNCHANGED <<operation, maxRetries, opInFlight>>
    /\ UNCHANGED <<fallbackVars, trackerVars, otherVars>>

\* The promise returned by operation() settles.
OperationSettles(c) ==
    /\ opInFlight[c] > 0
    /\ opInFlight' = [opInFlight EXCEPT ![c] = @ - 1]
    /\ UNCHANGED <<operation, maxRetries, attempt, opCalls, waits, rpc, rResult>>
    /\ UNCHANGED <<fallbackVars, trackerVars, otherVars>>

\* The call resumes after `await operation()` with a value.
RetryResumeValue(c) ==
    /\ rpc[c] = "await_op"
    /\ opInFlight[c] = 0
    /\ OutcomeAt(c, opCalls[c]).kind = "fulfilled"
    /\ RetryReturn(c, OutcomeAt(c, opCalls[c]).payload)
    /\ UNCHANGED <<operation, maxRetries, opCalls, opInFlight>>
    /\ UNCHANGED <<fallbackVars, trackerVars, otherVars>>

\* Mutant of RetryResumeError: the call gives an invocation up as failed
\* and goes on to the catch block without waiting for it to settle.
RetryResumeError_Early(c) ==
    /\ rpc[c] = "await_op"
    /\ OutcomeAt(c, opCalls[c]).kind = "rejected"
    /\ RetryCatch(c, OutcomeAt(c, opCalls[c]).payload)
    /\ UNCHANGED <<operation, maxRetries, opCalls, opInFlight>>
    /\ UNCHANGED <<fallbackVars, trackerVars, otherVars>>

\* The call resumes after `await operation()` with a rejection.
RetryResumeError(c) ==
    /\ rpc[c] = "await_op"
    /\ opInFlight[c] = 0
    /\ OutcomeAt(c, opCalls[c]).kind = "rejected"
    /\ RetryCatch(c, OutcomeAt(c, opCalls[c]).payload)
    /\ UNCHANGED <<operation, maxRetries, opCalls, opInFlight>>
    /\ UNCHANGED <<fallbackVars, trackerVars, otherVars>>

\* Mutant of RetryTimerFires: the promise awaited for the backoff is never
\* resolved, so the call stays suspended.
RetryTimerFires_NeverResolves(c) ==
    /\ rpc[c] = "await_timer"
    /\ FALSE
    /\ UNCHANGED vars

\* The backoff timer fires and the loop goes round.
RetryTimerFires(c) ==
    /\ rpc[c] = "await_timer"
    /\ rpc' = [rpc EXCEPT ![c] = "while"]
    /\ UNCHANGED <<operation, maxRetries, attempt, opCalls, opInFlight, waits,
                   rResult>>
    /\ UNCHANGED <<fallbackVars, trackerVars, otherVars>>

\* The arguments a call can be made with: maxRetries omitted (the default
\* applies) or any integer up to the bound, zero and negative included.
MaxRetriesArgs == {-1, 0} \cup (1 .. MaxRetriesBound) \cup {DefaultMaxRetries}

Operations == [1 .. MaxRetriesBound -> Outcomes]

\* One call of retryOperation has just been made.
RetryInit ==
    /\ operation \in [{1} -> Operations]
    /\ maxRetries \in [{1} -> MaxRetriesArgs]
    /\ attempt = [c \in {1} |-> 0]
    /\ opCalls = [c \in {1} |-> 0]
    /\ opInFlight = [c \in {1} |-> 0]
    /\ waits = [c \in {1} |-> <<>>]
    /\ rpc = [c \in {1} |-> "while"]
    /\ rResult = [c \in {1} |-> PendingResult]
    /\ NoFallbackCalls
    /\ NoTracker
    /\ NoMonitor /\ NoRace /\ NoBank /\ NoMaster

RetryNext ==
    \E c \in RetryCalls :
        \/ RetryFallOff(c)
        \/ RetryInvoke(c)
        \/ RetryInvokeThrows(c)
        \/ OperationSettles(c)
        \/ RetryResumeValue(c)
        \/ RetryResumeError(c)
        \/ RetryTimerFires(c)

SpecRetry == RetryInit /\ [][RetryNext]_vars

\* The event loop runs every continuation that can run, every timer fires
\* and every promise returned by the operation settles.
SpecRetryFair == SpecRetry /\ WF_vars(RetryNext)

\* Two calls of retryOperation have just been made, one after the other and
\* without awaiting the first, so that they overlap; each has an operation
\* of its own, described for its first two invocations.
ConcurrentOperations == [1 .. 2 -> Outcomes]

ConcurrentRetryInit ==
    /\ operation \in [{1, 2} -> ConcurrentOperations]
    /\ maxRetries \in [{1, 2} -> 1 .. MaxRetriesBound]
    /\ attempt = [c \in {1, 2} |-> 0]
    /\ opCalls = [c \in {1, 2} |-> 0]
    /\ opInFlight = [c \in {1, 2} |-> 0]
    /\ waits = [c \in {1, 2} |-> <<>>]
    /\ rpc = [c \in {1, 2} |-> "while"]
    /\ rResult = [c \in {1, 2} |-> PendingResult]
    /\ NoFallbackCalls
    /\ NoTracker
    /\ NoMonitor /\ NoRace /\ NoBank /\ NoMaster

SpecRetryConcurrent == ConcurrentRetryInit /\ [][RetryNext]_vars

(***************************************************************************)
(* withFallback (try-catch.js, lines 311-324).                             *)
(*                                                                         *)
(* Positions of a call: "start" on entry, "await_primary" suspended at     *)
(* `await primaryOperation()`, "await_fallback" suspended at               *)
(* `await fallbackOperation()`, "done" once the returned promise settled.  *)
(***************************************************************************)
FallbackCalls == DOMAIN fpc

\* Mutant of BothFailedMessage: only the last failure is reported.
BothFailedMessage_LastOnly(pm, fm) ==
    "Both operations failed. Fallback: " \o fm

\* `Both operations failed. Primary: ${primaryError.message}, Fallback: ${fallbackError.message}`
BothFailedMessage(pm, fm) ==
    "Both operations failed. Primary: " \o pm \o ", Fallback: " \o fm

\* return await ...; with the value v
FallbackReturn(c, v) ==
    /\ fResult' = [fResult EXCEPT ![c] = Fulfilled(v)]
    /\ fpc' = [fpc EXCEPT ![c] = "done"]

\* Mutant of FallbackCatch: the failure of the fallback is caught and not
\* thrown again, so the call resolves with no value.
FallbackCatch_Swallowed(c, fm) ==
    /\ fResult' = [fResult EXCEPT ![c] = Fulfilled(Undefined)]
    /\ fpc' = [fpc EXCEPT ![c] = "done"]

\* The inner catch block, entered with the Error of the fallback.
FallbackCatch(c, fm) ==
    /\ fResult' = [fResult EXCEPT ![c] =
                      Rejected(BothFailedMessage(primaryOperation[c].payload, fm))]
    /\ fpc' = [fpc EXCEPT ![c] = "done"]

\* The outer catch block: fallbackOperation() is invoked; it returns a
\* promise, which is awaited, or it throws into the inner catch block.
PrimaryCatch(c) ==
    /\ fallbackCalls' = [fallbackCalls EXCEPT ![c] = @ + 1]
    /\ IF fallbackOperation[c].kind = "thrown"
         THEN /\ FallbackCatch(c, fallbackOperation[c].payload)
              /\ UNCHANGED fInFlight
         ELSE /\ fInFlight' = [fInFlight EXCEPT ![c] = @ \cup {"fallback"}]
              /\ fpc' = [fpc EXCEPT ![c] = "await_fallback"]
              /\ UNCHANGED fResult

\* Mutant of FallbackInvokePrimary: both operations are started together
\* and the fallback is only awaited when the primary fails.
FallbackInvokePrimary_Eager(c) ==
    /\ fpc[c] = "start"
    /\ primaryOperation[c].kind # "thrown"
    /\ primaryCalls' = [primaryCalls EXCEPT ![c] = @ + 1]
    /\ fallbackCalls' = [fallbackCalls EXCEPT ![c] = @ + 1]
    /\ fInFlight' = [fInFlight EXCEPT ![c] = @ \cup {"primary", "fallback"}]
    /\ fpc' = [fpc EXCEPT ![c] = "await_primary"]
    /\ UNCHANGED <<primaryOperation, fallbackOperation, fResult>>
    /\ UNCHANGED <<retryVars, trackerVars, otherVars>>

\* primaryOperation() returns a promise, which is awaited.
FallbackInvokePrimary(c) ==
    /\ fpc[c] = "start"
    /\ primaryOperation[c].kind # "thrown"
    /\ primaryCalls' = [primaryCalls EXCEPT ![c] = @ + 1]
    /\ fInFlight' = [fInFlight EXCEPT ![c] = @ \cup {"primary"}]
    /\ fpc' = [fpc EXCEPT ![c] = "await_primary"]
    /\ UNCHANGED <<primaryOperation, fallbackOperation, fallbackCalls, fResult>>
    /\ UNCHANGED <<retryVars, trackerVars, otherVars>>

\* primaryOperation() throws: the outer catch block runs at once.
FallbackPrimaryThrows(c) ==
    /\ fpc[c] = "start"
    /\ primaryOperation[c].kind = "thrown"
    /\ primaryCalls' = [primaryCalls EXCEPT ![c] = @ + 1]
    /\ PrimaryCatch(c)
    /\ UNCHANGED <<primaryOperation, fallbackOperation>>
    /\ UNCHANGED <<retryVars, trackerVars, otherVars>>

\* A promise returned by one of the two operations settles.
FallbackOperationSettles(c) ==
    /\ \E o \in fInFlight[c] :
           fInFlight' = [fInFlight EXCEPT ![c] = @ \ {o}]
    /\ UNCHANGED <<primaryOperation, fallbackOperation, primaryCalls,
                   fallbackCalls, fpc, fResult>>
    /\ UNCHANGED <<retryVars, trackerVars, otherVars>>

\* The call resumes after `await primaryOperation()` with a value.
FallbackPrimaryValue(c) ==
    /\ fpc[c] = "await_primary"
    /\ "primary" \notin fInFlight[c]
    /\ primaryOperation[c].kind = "fulfilled"
    /\ FallbackReturn(c, primaryOperation[c].payload)
    /\ UNCHANGED <<primaryOperation, fallbackOperation, primaryCalls,
                   fallbackCalls, fInFlight>>
    /\ UNCHANGED <<retryVars, trackerVars, otherVars>>

\* Mutant of FallbackPrimaryError: the call gives the primary up as failed
\* and starts the fallback without waiting for the primary to settle.
FallbackPrimaryError_Early(c) ==
    /\ fpc[c] = "await_primary"
    /\ primaryOperation[c].kind = "rejected"
    /\ PrimaryCatch(c)
    /\ UNCHANGED <<primaryOperation, fallbackOperation, primaryCalls>>
    /\ UNCHANGED <<retryVars, trackerVars, otherVars>>

\* The call resumes after `await primaryOperation()` with a rejection.
FallbackPrimaryError(c) ==
    /\ fpc[c] = "await_primary"
    /\ "primary" \notin fInFlight[c]
    /\ primaryOperation[c].kind = "rejected"
    /\ PrimaryCatch(c)
    /\ UNCHANGED <<primaryOperation, fallbackOperation, primaryCalls>>
    /\ UNCHANGED <<retryVars, trackerVars, otherVars>>

\* Mutant of FallbackFallbackValue: the fallback is awaited but its value is
\* not returned.
FallbackFallbackValue_NoReturn(c) ==
    /\ fpc[c] = "await_fallback"
    /\ "fallback" \notin fInFlight[c]
    /\ fallbackOperation[c].kind = "fulfilled"
    /\ FallbackReturn(c, Undefined)
    /\ UNCHANGED <<primaryOperation, fallbackOperation, primaryCalls,
                   fallbackCalls, fInFlight>>
    /\ UNCHANGED <<retryVars, trackerVars, otherVars>>

\* The call resumes after `await fallbackOperation()` with a value.
FallbackFallbackValue(c) ==
    /\ fpc[c] = "await_fallback"
    /\ "fallback" \notin fInFlight[c]
    /\ fallbackOperation[c].kind = "fulfilled"
    /\ FallbackReturn(c, fallbackOperation[c].payload)
    /\ UNCHANGED <<primaryOperation, fallbackOperation, primaryCalls,
                   fallbackCalls, fInFlight>>
    /\ UNCHANGED <<retryVars, trackerVars, otherVars>>

\* The call resumes after `await fallbackOperation()` with a rejection.
FallbackFallbackError(c) ==
    /\ fpc[c] = "await_fallback"
    /\ "fallback" \notin fInFlight[c]
    /\ fallbackOperation[c].kind = "rejected"
    /\ FallbackCatch(c, fallbackOperation[c].payload)
    /\ UNCHANGED <<primaryOperation, fallbackOperation, primaryCalls,
                   fallbackCalls, fInFlight>>
    /\ UNCHANGED <<retryVars, trackerVars, otherVars>>

\* One call of withFallback has just been made.
FallbackInit ==
    /\ primaryOperation \in [{1} -> Outcomes]
    /\ fallbackOperation \in [{1} -> Outcomes]
    /\ primaryCalls = [c \in {1} |-> 0]
    /\ fallbackCalls = [c \in {1} |-> 0]
    /\ fInFlight = [c \in {1} |-> {}]
    /\ fpc = [c \in {1} |-> "start"]
    /\ fResult = [c \in {1} |-> PendingResult]
    /\ NoRetryCalls
    /\ NoTracker
    /\ NoMonitor /\ NoRace /\ NoBank /\ NoMaster

FallbackNext ==
    \E c \in FallbackCalls :
        \/ FallbackInvokePrimary(c)
        \/ FallbackPrimaryThrows(c)
        \/ FallbackOperationSettles(c)
        \/ FallbackPrimaryValue(c)
        \/ FallbackPrimaryError(c)
        \/ FallbackFallbackValue(c)
        \/ FallbackFallbackError(c)

SpecFallback == FallbackInit /\ [][FallbackNext]_vars

(***************************************************************************)
(* A call of either executor of errorRecovery (lines 274-324).             *)
(***************************************************************************)
ExecutorInit == RetryInit \/ FallbackInit

ExecutorNext == RetryNext \/ FallbackNext

SpecExecutors == ExecutorInit /\ [][ExecutorNext]_vars

(***************************************************************************)
(* AsyncDebugging: the operation tracker (promises.js, lines 9-13 and      *)
(* 557-580).                                                               *)
(*                                                                         *)
(* Every call of createTrackedPromise gets the next index of the sequences *)
(* opName, opState, opOutcome, thenState and trackedResult.  The call      *)
(* builds the chain  promise.then(onFulfilled).catch(onRejected) : the     *)
(* promise of the factory, the promise returned by then and the promise    *)
(* returned by catch, which is the one the caller gets.  A reaction of a   *)
(* settled promise is a job of the queue jobs and the jobs run in order.   *)
(***************************************************************************)
Names == {"user-fetch", "posts-fetch", "comments-fetch"}

TrackedOutcomes ==
    [kind : {"fulfilled"}, payload : Values]
        \cup [kind : {"rejected"}, payload : Reasons]

NoOutcome == [kind |-> "none", payload |-> Undefined]

TrackedCalls == DOMAIN opName

\* The calls whose factory returned a promise, i.e. the registered ones.
Registered == {op \in TrackedCalls : opState[op] # "threw"}

\* The names found in this.completedOperations.
CompletedNames ==
    {completedOperations[i].name : i \in DOMAIN completedOperations}

\* Mutant of OnFulfilled: the name is not deleted from the pending set.
OnFulfilled_NoDelete(name, result) ==
    [pending |-> pendingOperations,
     completed |-> Append(completedOperations,
                          [name |-> name, status |-> "fulfilled",
                           result |-> result]),
     settles |-> Fulfilled(result)]

\* Mutant of OnFulfilled: the value is passed on at once and the two
\* collections are left to be updated later.
OnFulfilled_ForwardOnly(name, result) ==
    [pending |-> pendingOperations,
     completed |-> completedOperations,
     settles |-> Fulfilled(result)]

\* Mutant of OnFulfilled: a name that has a record already gets no second
\* one.
OnFulfilled_Deduplicated(name, result) ==
    [pending |-> pendingOperations \ {name},
     completed |-> IF name \in CompletedNames
                     THEN completedOperations
                     ELSE Append(completedOperations,
                                 [name |-> name, status |-> "fulfilled",
                                  result |-> result]),
     settles |-> Fulfilled(result)]

\* The onFulfilled callback passed to then (lines 562-570): the new
\* contents of the two collections and the settlement of the then promise.
OnFulfilled(name, result) ==
    [pending |-> pendingOperations \ {name},
     completed |-> Append(completedOperations,
                          [name |-> name, status |-> "fulfilled",
                           result |-> result]),
     settles |-> Fulfilled(result)]

\* Mutant of OnRejected: the record is tagged as the one of onFulfilled is.
OnRejected_Mistagged(name, error) ==
    [pending |-> pendingOperations \ {name},
     completed |-> Append(completedOperations,
                          [name |-> name, status |-> "fulfilled",
                           result |-> error]),
     settles |-> Rejected(error)]

\* Mutant of OnRejected: the error is recorded but not thrown again.
OnRejected_Swallowed(name, error) ==
    [pending |-> pendingOperations \ {name},
     completed |-> Append(completedOperations,
                          [name |-> name, status |-> "rejected",
                           error |-> error]),
     settles |-> Fulfilled(Undefined)]

\* The onRejected callback passed to catch (lines 571-579): the new
\* contents of the two collections and the settlement of the catch promise.
OnRejected(name, error) ==
    [pending |-> pendingOperations \ {name},
     completed |-> Append(completedOperations,
                          [name |-> name, status |-> "rejected",
                           error |-> error]),
     settles |-> Rejected(error)]

\* Mutant of CreateTrackedPromise: the name is not added when the chain is
\* built.
CreateTrackedPromise_NoAdd(name) ==
    /\ Len(opName) < MaxTracked
    /\ opName' = Append(opName, name)
    /\ opState' = Append(opState, "pending")
    /\ opOutcome' = Append(opOutcome, NoOutcome)
    /\ thenState' = Append(thenState, PendingResult)
    /\ trackedResult' = Append(trackedResult, PendingResult)
    /\ UNCHANGED <<pendingOperations, completedOperations, jobs>>
    /\ UNCHANGED <<retryVars, fallbackVars, settleOrder, otherVars>>

\* createTrackedPromise(name, promiseFactory) when the factory returns a
\* promise (lines 558-561): the name is added and the chain is built.
CreateTrackedPromise(name) ==
    /\ Len(opName) < MaxTracked
    /\ opName' = Append(opName, name)
    /\ opState' = Append(opState, "pending")
    /\ opOutcome' = Append(opOutcome, NoOutcome)
    /\ thenState' = Append(thenState, PendingResult)
    /\ trackedResult' = Append(trackedResult, PendingResult)
    /\ pendingOperations' = pendingOperations \cup {name}
    /\ UNCHANGED <<completedOperations, jobs>>
    /\ UNCHANGED <<retryVars, fallbackVars, settleOrder, otherVars>>

\* Mutant of CreateTrackedPromiseThrows: the name is added before the
\* factory is invoked.
CreateTrackedPromiseThrows_AddsFirst(name) ==
    /\ Len(opName) < MaxTracked
    /\ opName' = Append(opName, name)
    /\ opState' = Append(opState, "threw")
    /\ opOutcome' = Append(opOutcome, NoOutcome)
    /\ thenState' = Append(thenState, PendingResult)
    /\ trackedResult' = Append(trackedResult, PendingResult)
    /\ pendingOperations' = pendingOperations \cup {name}
    /\ UNCHANGED <<completedOperations, jobs>>
    /\ UNCHANGED <<retryVars, fallbackVars, settleOrder, otherVars>>

\* createTrackedPromise(name, promiseFactory) when the factory throws
\* (line 558): the exception leaves the method before anything is added.
CreateTrackedPromiseThrows(name) ==
    /\ Len(opName) < MaxTracked
    /\ opName' = Append(opName, name)
    /\ opState' = Append(opState, "threw")
    /\ opOutcome' = Append(opOutcome, NoOutcome)
    /\ thenState' = Append(thenState, PendingResult)
    /\ trackedResult' = Append(trackedResult, PendingResult)
    /\ UNCHANGED <<pendingOperations, completedOperations, jobs>>
    /\ UNCHANGED <<retryVars, fallbackVars, settleOrder, otherVars>>

\* The promise the factory returned settles; its reaction is queued.
PromiseSettles(op, outcome) ==
    /\ opState[op] = "pending"
    /\ opState' = [opState EXCEPT ![op] = outcome.kind]
    /\ opOutcome' = [opOutcome EXCEPT ![op] = outcome]
    /\ jobs' = Append(jobs, <<op, "then">>)
    /\ settleOrder' = Append(settleOrder, op)
    /\ UNCHANGED <<pendingOperations, completedOperations, opName, thenState,
                   trackedResult>>
    /\ UNCHANGED <<retryVars, fallbackVars, otherVars>>

\* The reaction of a fulfilled factory promise: onFulfilled runs.
ThenJobFulfilled ==
    /\ jobs # <<>>
    /\ LET op == Head(jobs)[1]
           h == OnFulfilled(opName[op], opOutcome[op].payload) IN
       /\ Head(jobs)[2] = "then"
       /\ opState[op] = "fulfilled"
       /\ pendingOperations' = h.pending
       /\ completedOperations' = h.completed
       /\ thenState' = [thenState EXCEPT ![op] = h.settles]
       /\ jobs' = Append(Tail(jobs), <<op, "catch">>)
    /\ UNCHANGED <<opName, opState, opOutcome, trackedResult>>
    /\ UNCHANGED <<retryVars, fallbackVars, settleOrder, otherVars>>

\* The reaction of a rejected factory promise: then has no rejection
\* handler, so the then promise rejects with the same reason.
ThenJobRejected ==
    /\ jobs # <<>>
    /\ LET op == Head(jobs)[1] IN
       /\ Head(jobs)[2] = "then"
       /\ opState[op] = "rejected"
       /\ thenState' = [thenState EXCEPT ![op] = Rejected(opOutcome[op].payload)]
       /\ jobs' = Append(Tail(jobs), <<op, "catch">>)
    /\ UNCHANGED <<pendingOperations, completedOperations, opName, opState,
                   opOutcome, trackedResult>>
    /\ UNCHANGED <<retryVars, fallbackVars, settleOrder, otherVars>>

\* The reaction of a fulfilled then promise: catch has no fulfilment
\* handler, so the catch promise fulfils with the same value.
CatchJobFulfilled ==
    /\ jobs # <<>>
    /\ LET op == Head(jobs)[1] IN
       /\ Head(jobs)[2] = "catch"
       /\ thenState[op].status = "fulfilled"
       /\ trackedResult' = [trackedResult EXCEPT ![op] = thenState[op]]
       /\ jobs' = Tail(jobs)
    /\ UNCHANGED <<pendingOperations, completedOperations, opName, opState,
                   opOutcome, thenState>>
    /\ UNCHANGED <<retryVars, fallbackVars, settleOrder, otherVars>>

\* The reaction of a rejected then promise: onRejected runs.
CatchJobRejected ==
    /\ jobs # <<>>
    /\ LET op == Head(jobs)[1]
           h == OnRejected(opName[op], thenState[op].value) IN
       /\ Head(jobs)[2] = "catch"
       /\ thenState[op].status = "rejected"
       /\ pendingOperations' = h.pending
       /\ completedOperations' = h.completed
       /\ trackedResult' = [trackedResult EXCEPT ![op] = h.settles]
       /\ jobs' = Tail(jobs)
    /\ UNCHANGED <<opName, opState, opOutcome, thenState>>
    /\ UNCHANGED <<retryVars, fallbackVars, settleOrder, otherVars>>

\* The state the constructor leaves (lines 9-13), no helper call in progress.
TrackerInit ==
    /\ NoTracker
    /\ NoMonitor /\ NoRace /\ NoBank /\ NoMaster
    /\ NoRetryCalls
    /\ NoFallbackCalls

TrackerNext ==
    \/ \E name \in Names : CreateTrackedPromise(name)
    \/ \E name \in Names : CreateTrackedPromiseThrows(name)
    \/ \E op \in TrackedCalls : \E outcome \in TrackedOutcomes :
           PromiseSettles(op, outcome)
    \/ ThenJobFulfilled
    \/ ThenJobRejected
    \/ CatchJobFulfilled
    \/ CatchJobRejected

SpecTracker == TrackerInit /\ [][TrackerNext]_vars

(***************************************************************************)
(* monitorPendingOperations (promises.js, lines 582-597).  The method sets *)
(* a timer for the function monitor; monitor looks at the pending set and  *)
(* either sets the timer again or reports.  A timer callback is a task of  *)
(* its own: it runs when no promise job is waiting.                        *)
(***************************************************************************)
MaxTicks == 2

\* Mutant of Monitor: completion is reported whatever the pending set holds.
Monitor_Impatient == [schedules |-> 0, reports |-> 1]

\* The function monitor (lines 583-594): how many timers it sets and how
\* many times it reports.
Monitor ==
    IF Cardinality(pendingOperations) > 0
        THEN [schedules |-> 1, reports |-> 0]
        ELSE [schedules |-> 0, reports |-> 1]

\* monitorPendingOperations() (line 596), called once as by
\* debuggingToolsAndTechniques (line 303).
MonitorPendingOperations ==
    /\ NoMonitor
    /\ monitorTimers' = monitorTimers + 1
    /\ UNCHANGED <<monitorReports, monitorTicks>>
    /\ UNCHANGED <<retryVars, fallbackVars, trackerVars, raceVars, bankVars,
                   masterVars>>

\* A timer fires and monitor runs.
MonitorTick ==
    /\ monitorTimers > 0
    /\ jobs = <<>>
    /\ monitorTimers' = monitorTimers - 1 + Monitor.schedules
    /\ monitorReports' = monitorReports + Monitor.reports
    /\ monitorTicks' = IF monitorTicks < MaxTicks THEN monitorTicks + 1
                                                  ELSE monitorTicks
    /\ UNCHANGED <<retryVars, fallbackVars, trackerVars, raceVars, bankVars,
                   masterVars>>

\* The two names debuggingToolsAndTechniques registers (lines 293, 297).
MonitoredNames == {"user-fetch", "posts-fetch"}

PromiseJobs ==
    \/ ThenJobFulfilled
    \/ ThenJobRejected
    \/ CatchJobFulfilled
    \/ CatchJobRejected

MonitorNext ==
    \/ \E name \in MonitoredNames : CreateTrackedPromise(name)
    \/ \E op \in TrackedCalls : \E outcome \in TrackedOutcomes :
           PromiseSettles(op, outcome)
    \/ PromiseJobs
    \/ MonitorPendingOperations
    \/ MonitorTick

\* Timers fire, the promise job queue is drained and, as the hypothesis of
\* the monitor's termination has it, an operation in flight settles.
SpecMonitor ==
    /\ TrackerInit
    /\ [][MonitorNext]_vars
    /\ WF_vars(MonitorTick)
    /\ WF_vars(PromiseJobs)
    /\ WF_vars(\E op \in TrackedCalls : \E outcome \in TrackedOutcomes :
                   PromiseSettles(op, outcome))

(***************************************************************************)
(* Properties of retryOperation.                                           *)
(***************************************************************************)
AlwaysSucceeds(c) ==
    \A i \in DOMAIN operation[c] : operation[c][i].kind = "fulfilled"

AlwaysFails(c) ==
    \A i \in DOMAIN operation[c] : Failed(operation[c][i])

\* The operation fails on its first k invocations and succeeds on the next.
FailsThenSucceeds(c, k) ==
    /\ k < Len(operation[c])
    /\ \A i \in 1 .. k : Failed(operation[c][i])
    /\ operation[c][k + 1].kind = "fulfilled"

RetryDone(c) == rpc[c] = "done"

\* C1: with maxRetries >= 1 and an operation that always succeeds, the call
\* resolves with the value of the operation and the operation is invoked
\* exactly once (never a second time, and once by the time the call ends).
C1_SuccessOnFirstTry ==
    \A c \in RetryCalls :
        (maxRetries[c] >= 1 /\ AlwaysSucceeds(c)) =>
            /\ opCalls[c] <= 1
            /\ rResult[c].status # "rejected"
            /\ RetryDone(c) =>
                   /\ opCalls[c] = 1
                   /\ rResult[c] = Fulfilled(operation[c][1].payload)

C1_Witness ==
    \E c \in RetryCalls :
        /\ maxRetries[c] = MaxRetriesBound
        /\ AlwaysSucceeds(c)
        /\ RetryDone(c)
        /\ opCalls[c] = 1

\* C2: with maxRetries = N >= 1 and an operation that always fails, the
\* operation is invoked exactly N times (never more, and N times by the time
\* the call ends) and the call fails with the exhausted-retries failure
\* whose message reports N attempts.
C2_ExhaustionCount ==
    \A c \in RetryCalls :
        (maxRetries[c] >= 1 /\ AlwaysFails(c)) =>
            /\ opCalls[c] <= maxRetries[c]
            /\ rResult[c].status # "fulfilled"
            /\ RetryDone(c) =>
                   /\ opCalls[c] = maxRetries[c]
                   /\ \E r \in Reasons :
                          rResult[c] =
                              Rejected("Operation failed after "
                                         \o ToString(maxRetries[c])
                                         \o " attempts: " \o r)

C2_Witness ==
    \E c \in RetryCalls :
        /\ maxRetries[c] = 3
        /\ AlwaysFails(c)
        /\ RetryDone(c)
        /\ opCalls[c] = 3
        /\ rResult[c].status = "rejected"

\* C3: with maxRetries = N >= 1 and an operation that fails on its first k
\* invocations (0 <= k < N) and succeeds on invocation k+1, the call resolves
\* with that value, the operation is invoked exactly k+1 times, and the call
\* never rejects: none of the k failures reaches the caller.
C3_EventualSuccess ==
    \A c \in RetryCalls : \A k \in 0 .. (MaxRetriesBound - 1) :
        (maxRetries[c] >= 1 /\ k < maxRetries[c] /\ FailsThenSucceeds(c, k)) =>
            /\ opCalls[c] <= k + 1
            /\ rResult[c].status # "rejected"
            /\ RetryDone(c) =>
                   /\ opCalls[c] = k + 1
                   /\ rResult[c] = Fulfilled(operation[c][k + 1].payload)

C3_Witness ==
    \E c \in RetryCalls :
        /\ maxRetries[c] = 3
        /\ FailsThenSucceeds(c, 2)
        /\ RetryDone(c)
        /\ opCalls[c] = 3
        /\ rResult[c].status = "fulfilled"

\* C4: when the call rejects because the attempts are exhausted, the message
\* of the failure holds the message of the last failed invocation, not of an
\* earlier one, and the number of attempts made.
C4_LastReasonAndCount ==
    \A c \in RetryCalls :
        rResult[c].status = "rejected" =>
            /\ attempt[c] = opCalls[c]
            /\ Failed(OutcomeAt(c, opCalls[c]))
            /\ rResult[c].value =
                   "Operation failed after " \o ToString(opCalls[c])
                       \o " attempts: " \o OutcomeAt(c, opCalls[c]).payload

C4_Witness ==
    \E c \in RetryCalls :
        /\ rResult[c].status = "rejected"
        /\ opCalls[c] >= 2
        /\ operation[c][1].payload # operation[c][opCalls[c]].payload

(***************************************************************************)
(* Properties of withFallback.                                             *)
(***************************************************************************)
FallbackDone(c) == fpc[c] = "done"

\* C5: if primaryOperation succeeds with a value, withFallback resolves
\* with that value and fallbackOperation is never invoked.
C5_PrimaryWins ==
    \A c \in FallbackCalls :
        primaryOperation[c].kind = "fulfilled" =>
            /\ fallbackCalls[c] = 0
            /\ fResult[c].status # "rejected"
            /\ FallbackDone(c) =>
                   fResult[c] = Fulfilled(primaryOperation[c].payload)

C5_Witness ==
    \E c \in FallbackCalls :
        /\ primaryOperation[c] = [kind |-> "fulfilled", payload |-> "P"]
        /\ FallbackDone(c)
        /\ primaryCalls[c] = 1
        /\ fResult[c] = Fulfilled("P")

\* C6: if primaryOperation fails and fallbackOperation succeeds with a
\* value, withFallback resolves with exactly that value: the call does not
\* reject and the outcome holds nothing of the failure of the primary.
C6_FallbackRescues ==
    \A c \in FallbackCalls :
        (Failed(primaryOperation[c])
            /\ fallbackOperation[c].kind = "fulfilled") =>
            /\ fResult[c].status # "rejected"
            /\ fResult[c].value # primaryOperation[c].payload
            /\ FallbackDone(c) =>
                   /\ fallbackCalls[c] = 1
                   /\ fResult[c] = Fulfilled(fallbackOperation[c].payload)

C6_Witness ==
    \E c \in FallbackCalls :
        /\ Failed(primaryOperation[c])
        /\ fallbackOperation[c] = [kind |-> "fulfilled", payload |-> "F"]
        /\ FallbackDone(c)
        /\ fResult[c] = Fulfilled("F")

\* C7: if primaryOperation fails with reason A and fallbackOperation fails
\* with reason B, withFallback rejects with one failure whose message holds
\* both reasons, the one of the primary before the one of the fallback.
C7_BothFailed ==
    \A c \in FallbackCalls :
        (Failed(primaryOperation[c]) /\ Failed(fallbackOperation[c])) =>
            /\ fResult[c].status # "fulfilled"
            /\ FallbackDone(c) =>
                   fResult[c] =
                       Rejected("Both operations failed. Primary: "
                                  \o primaryOperation[c].payload
                                  \o ", Fallback: "
                                  \o fallbackOperation[c].payload)

C7_Witness ==
    \E c \in FallbackCalls :
        /\ Failed(primaryOperation[c]) /\ primaryOperation[c].payload = "A"
        /\ Failed(fallbackOperation[c]) /\ fallbackOperation[c].payload = "B"
        /\ FallbackDone(c)
        /\ fResult[c].status = "rejected"

(***************************************************************************)
(* Properties of the tracker.                                              *)
(***************************************************************************)
\* Every registered operation has a name of its own.
DistinctNames ==
    \A a, b \in Registered : a # b => opName[a] # opName[b]

\* Every tracked promise handed to a caller has settled.
AllTrackedSettled ==
    \A op \in Registered : trackedResult[op].status # "pending"

\* The record the settlement of operation op is to leave.
ExpectedRecord(op) ==
    IF opOutcome[op].kind = "fulfilled"
      THEN [name |-> opName[op], status |-> "fulfilled",
            result |-> opOutcome[op].payload]
      ELSE [name |-> opName[op], status |-> "rejected",
            error |-> opOutcome[op].payload]

RecordsOf(name) ==
    {i \in DOMAIN completedOperations : completedOperations[i].name = name}

\* C8: for operations tracked under distinct names, once all of them have
\* settled the pending set is empty and the completed sequence holds exactly
\* one record per tracked operation, tagged fulfilled or rejected as the
\* operation settled and holding its value or its reason.
C8_AllSettledBookkeeping ==
    (DistinctNames /\ AllTrackedSettled) =>
        /\ pendingOperations = {}
        /\ Len(completedOperations) = Cardinality(Registered)
        /\ \A op \in Registered :
               /\ Cardinality(RecordsOf(opName[op])) = 1
               /\ \A i \in RecordsOf(opName[op]) :
                      completedOperations[i] = ExpectedRecord(op)

C8_Witness ==
    /\ DistinctNames /\ AllTrackedSettled
    /\ Cardinality(Registered) = MaxTracked
    /\ \E a, b \in Registered :
           opState[a] = "fulfilled" /\ opState[b] = "rejected"

\* C9: the tracked promise settles exactly as the promise of the factory
\* does: never before it, fulfilled with the same value when it fulfils and
\* rejected with the same reason when it rejects.
C9_Passthrough ==
    \A op \in Registered :
        trackedResult[op].status # "pending" =>
            /\ opState[op] \in {"fulfilled", "rejected"}
            /\ trackedResult[op].status = opOutcome[op].kind
            /\ trackedResult[op].value = opOutcome[op].payload

C9_Witness ==
    \E a, b \in Registered :
        /\ opOutcome[a] = [kind |-> "fulfilled", payload |-> "F"]
        /\ trackedResult[a] = Fulfilled("F")
        /\ opOutcome[b] = [kind |-> "rejected", payload |-> "B"]
        /\ trackedResult[b] = Rejected("B")

\* The names createTrackedPromise has added to the pending set so far.
RegisteredNames == {opName[op] : op \in Registered}

TimesRegistered(name) ==
    Cardinality({op \in Registered : opName[op] = name})

InExactlyOne(name) ==
    (name \in pendingOperations) # (name \in CompletedNames)

\* C10 as stated: in every reachable state every name that has been
\* registered is in exactly one of the pending set and the completed
\* sequence.
C10_ExactlyOneAnyName ==
    \A name \in RegisteredNames : InExactlyOne(name)

\* C10 as amended: in every reachable state every name that has been
\* registered exactly once on the tracker is in exactly one of the pending
\* set and the completed sequence.
C10_ExactlyOneUniqueName ==
    \A name \in RegisteredNames :
        TimesRegistered(name) = 1 => InExactlyOne(name)

C10_Witness ==
    \E a, b \in Registered :
        /\ TimesRegistered(opName[a]) = 1 /\ TimesRegistered(opName[b]) = 1
        /\ opName[a] \in pendingOperations
        /\ opName[b] \in CompletedNames

\* No registered operation has settled yet.
NoneSettled == \A op \in Registered : opState[op] = "pending"

\* C11: createTrackedPromise adds the name to the pending set before it
\* returns: in the state a registering call leaves, where the promise of
\* the factory has not settled, the name is in the pending set, no callback
\* has run, and when the operations registered so far have distinct names
\* and none has settled the pending set has one name per operation.
C11_RegisteredSynchronously ==
    [][Len(opName') > Len(opName) /\ opState'[Len(opName')] = "pending" =>
          /\ opName'[Len(opName')] \in pendingOperations'
          /\ completedOperations' = completedOperations
          /\ (DistinctNames' /\ NoneSettled') =>
                 /\ pendingOperations' = RegisteredNames'
                 /\ Cardinality(pendingOperations') = Cardinality(Registered')
      ]_vars

C11_Witness ==
    /\ DistinctNames /\ NoneSettled
    /\ Cardinality(Registered) = MaxTracked
    /\ Cardinality(pendingOperations) = MaxTracked

\* The place of operation op in the order of settlement.
SettledAt(op) == CHOOSE i \in DOMAIN settleOrder : settleOrder[i] = op

\* The operation a record was pushed for, when names are distinct.
OperationOf(i) ==
    CHOOSE op \in Registered : opName[op] = completedOperations[i].name

\* The records are in the order in which their operations settled.
RecordsInSettlementOrder ==
    DistinctNames =>
        \A i, j \in DOMAIN completedOperations :
            i < j => SettledAt(OperationOf(i)) < SettledAt(OperationOf(j))

\* A step leaves the records there are as they are and where they are.
RecordsAppendOnly ==
    /\ Len(completedOperations') >= Len(completedOperations)
    /\ SubSeq(completedOperations', 1, Len(completedOperations))
           = completedOperations

\* C12: the completed sequence is append-only and, for operations tracked
\* under distinct names, in settlement order under every interleaving: the
\* record of an operation that settled earlier precedes the record of one
\* that settled later, and no record is removed, reordered or changed.
C12_SettlementOrder ==
    /\ []RecordsInSettlementOrder
    /\ [][RecordsAppendOnly]_vars

(***************************************************************************)
(* Behaviour of retryOperation.                                            *)
(***************************************************************************)
\* The number of invocations of the operation whose failure the call has
\* caught so far: all failed ones but the one still awaited.
FailuresCaught(c) ==
    LET n == IF rpc[c] = "await_op" THEN opCalls[c] - 1 ELSE opCalls[c] IN
    Cardinality({i \in 1 .. n : Failed(OutcomeAt(c, i))})

\* C13: throughout a call with maxRetries >= 1, 0 <= attempt <= maxRetries,
\* attempt is the number of failed invocations so far (one increment per
\* failed invocation and none otherwise) and the operation has been invoked
\* at most maxRetries times.
C13_AttemptCounter ==
    \A c \in RetryCalls :
        maxRetries[c] >= 1 =>
            /\ 0 <= attempt[c] /\ attempt[c] <= maxRetries[c]
            /\ attempt[c] = FailuresCaught(c)
            /\ opCalls[c] <= maxRetries[c]

C13_Witness ==
    \E c \in RetryCalls :
        /\ maxRetries[c] = MaxRetriesBound
        /\ attempt[c] = maxRetries[c]
        /\ opCalls[c] = maxRetries[c]

\* The call ended at its first successful invocation or at the failure that
\* brought attempt to maxRetries, whichever came first.
EndedAtFirstOccasion(c) ==
    LET n == opCalls[c] IN
    /\ n >= 1 /\ n <= maxRetries[c]
    /\ \A i \in 1 .. (n - 1) : Failed(OutcomeAt(c, i))
    /\ IF Failed(OutcomeAt(c, n))
         THEN n = maxRetries[c] /\ attempt[c] = maxRetries[c]
         ELSE attempt[c] = n - 1 /\ attempt[c] < maxRetries[c]

\* C14: when every invocation of the operation settles, a call with
\* maxRetries >= 1 terminates; it ends at the first successful invocation or
\* at the failure that brings attempt to maxRetries, whichever occurs first,
\* and invokes the operation no more after it has ended.
C14_Terminates ==
    /\ <>(\A c \in RetryCalls : maxRetries[c] >= 1 => RetryDone(c))
    /\ [](\A c \in RetryCalls :
              (maxRetries[c] >= 1 /\ RetryDone(c)) => EndedAtFirstOccasion(c))
    /\ [][\A c \in RetryCalls : RetryDone(c) => opCalls'[c] = opCalls[c]]_vars

C14_Witness ==
    \E c \in RetryCalls :
        /\ maxRetries[c] = MaxRetriesBound
        /\ RetryDone(c)
        /\ opCalls[c] = 2
        /\ waits[c] # <<>>

\* C15: the attempts of one call are strictly sequential: the operation is
\* never invoked while an earlier invocation is still unsettled, so at most
\* one invocation is in flight per call at any instant.
C15_SequentialAttempts ==
    /\ [](\A c \in RetryCalls : opInFlight[c] <= 1)
    /\ [][\A c \in RetryCalls :
              opCalls'[c] > opCalls[c] => opInFlight[c] = 0]_vars

C15_Witness ==
    \E c \in RetryCalls :
        /\ opCalls[c] = MaxRetriesBound
        /\ opInFlight[c] = 1

\* C16: after the k-th failed invocation with k < maxRetries the call waits
\* 100 * k before the next invocation (100, 200, 300, ...); it waits neither
\* before the first invocation, nor after a success, nor after the failure
\* that exhausts the attempts.
C16_LinearBackoff ==
    \A c \in RetryCalls :
        maxRetries[c] >= 1 =>
            /\ \A k \in DOMAIN waits[c] : waits[c][k] = 100 * k
            /\ Len(waits[c]) =
                   IF attempt[c] >= maxRetries[c] THEN attempt[c] - 1
                                                  ELSE attempt[c]
            /\ opCalls[c] = 0 => waits[c] = <<>>
            /\ rpc[c] = "await_timer" => Len(waits[c]) = opCalls[c]
            /\ RetryDone(c) => Len(waits[c]) = opCalls[c] - 1

C16_Witness ==
    \E c \in RetryCalls :
        /\ maxRetries[c] = 4
        /\ waits[c] = <<100, 200, 300>>
        /\ rpc[c] = "await_timer"

\* C17: with maxRetries = 1 and an operation that fails, the call invokes
\* the operation exactly once, sets no backoff timer, does not retry and
\* rejects with the exhausted-retries failure that reports 1 attempt.
C17_SingleAttempt ==
    \A c \in RetryCalls :
        (maxRetries[c] = 1 /\ Failed(operation[c][1])) =>
            /\ opCalls[c] <= 1
            /\ waits[c] = <<>>
            /\ rpc[c] # "await_timer"
            /\ rResult[c].status # "fulfilled"
            /\ RetryDone(c) =>
                   /\ opCalls[c] = 1
                   /\ attempt[c] = 1
                   /\ rResult[c] =
                          Rejected("Operation failed after 1 attempts: "
                                     \o operation[c][1].payload)

C17_Witness ==
    \E c \in RetryCalls :
        /\ maxRetries[c] = 1
        /\ Failed(operation[c][1])
        /\ RetryDone(c)
        /\ rResult[c].status = "rejected"

(***************************************************************************)
(* Behaviour of both executors.                                            *)
(***************************************************************************)
\* C18 as stated: an operation handed to retryOperation or to withFallback
\* is invoked at most once per call of the executor.
C18_AtMostOncePerCall ==
    /\ \A c \in RetryCalls : opCalls[c] <= 1
    /\ \A c \in FallbackCalls : primaryCalls[c] <= 1 /\ fallbackCalls[c] <= 1

\* C18 as amended: an operation handed to withFallback is invoked at most
\* once per call; the operation handed to retryOperation is invoked at most
\* once per attempt, hence at most maxRetries times per call (and not at all
\* when maxRetries <= 0).
C18_AtMostOncePerAttempt ==
    /\ \A c \in RetryCalls :
           /\ opCalls[c] <= attempt[c] + 1
           /\ opCalls[c] <= IF maxRetries[c] >= 0 THEN maxRetries[c] ELSE 0
    /\ \A c \in FallbackCalls : primaryCalls[c] <= 1 /\ fallbackCalls[c] <= 1

C18_Witness ==
    \E c \in RetryCalls :
        /\ maxRetries[c] = MaxRetriesBound
        /\ opCalls[c] = maxRetries[c]
        /\ attempt[c] = opCalls[c] - 1
        /\ RetryDone(c)

\* C19: in a withFallback call primaryOperation is invoked exactly once
\* and never again; fallbackOperation is invoked at most once, if and only
\* if primaryOperation failed, and never while primaryOperation is still
\* unsettled.
C19_FallbackOrder ==
    \A c \in FallbackCalls :
        /\ primaryCalls[c] <= 1
        /\ fpc[c] # "start" => primaryCalls[c] = 1
        /\ fallbackCalls[c] <= 1
        /\ fallbackCalls[c] = 1 => Failed(primaryOperation[c])
        /\ (Failed(primaryOperation[c]) /\ fpc[c] \in {"await_fallback", "done"})
               => fallbackCalls[c] = 1
        /\ fpc[c] = "await_fallback" => Failed(primaryOperation[c])
        /\ fInFlight[c] # {"primary", "fallback"}
        /\ fallbackCalls[c] = 1 => "primary" \notin fInFlight[c]

C19_Witness ==
    \E c \in FallbackCalls :
        /\ primaryOperation[c].kind = "rejected"
        /\ primaryCalls[c] = 1
        /\ fallbackCalls[c] = 1
        /\ fInFlight[c] = {"fallback"}

\* A retryOperation call that has ended resolved with the value of one of
\* its invocations, or rejected with the exhausted-retries failure after all
\* its invocations failed; the promise it returned stays pending until then.
RetryEndsProperly(c) ==
    /\ rResult[c].status = "pending" <=> ~RetryDone(c)
    /\ RetryDone(c) =>
           \/ /\ rResult[c].status = "fulfilled"
              /\ \E i \in 1 .. opCalls[c] :
                     OutcomeAt(c, i) =
                         [kind |-> "fulfilled", payload |-> rResult[c].value]
           \/ /\ rResult[c].status = "rejected"
              /\ \A i \in 1 .. opCalls[c] : Failed(OutcomeAt(c, i))
              /\ \E r \in Reasons :
                     rResult[c].value =
                         "Operation failed after " \o ToString(maxRetries[c])
                             \o " attempts: " \o r

\* A withFallback call that has ended resolved with the value of the primary
\* or of the invoked fallback, or rejected with the both-failed failure
\* after both failed; the promise it returned stays pending until then.
FallbackEndsProperly(c) ==
    /\ fResult[c].status = "pending" <=> ~FallbackDone(c)
    /\ FallbackDone(c) =>
           \/ /\ fResult[c].status = "fulfilled"
              /\ \/ primaryOperation[c] =
                        [kind |-> "fulfilled", payload |-> fResult[c].value]
                 \/ /\ fallbackCalls[c] = 1
                    /\ fallbackOperation[c] =
                           [kind |-> "fulfilled", payload |-> fResult[c].value]
           \/ /\ fResult[c].status = "rejected"
              /\ Failed(primaryOperation[c]) /\ Failed(fallbackOperation[c])
              /\ fResult[c].value =
                     "Both operations failed. Primary: "
                         \o primaryOperation[c].payload \o ", Fallback: "
                         \o fallbackOperation[c].payload

\* C20 as stated: every retryOperation or withFallback call whose invoked
\* operations settle ends in one of two ways: it resolves with a value
\* returned by one of its invocations or it rejects with the composite
\* failure; no failure is swallowed and no other value is returned.
C20_EveryCallEndsProperly ==
    /\ \A c \in RetryCalls : RetryEndsProperly(c)
    /\ \A c \in FallbackCalls : FallbackEndsProperly(c)

\* C20 as amended: the same, for every withFallback call and for every
\* retryOperation call with maxRetries >= 1.
C20_ContractCallEndsProperly ==
    /\ \A c \in RetryCalls : maxRetries[c] >= 1 => RetryEndsProperly(c)
    /\ \A c \in FallbackCalls : FallbackEndsProperly(c)

C20_Witness ==
    \E c \in FallbackCalls :
        /\ primaryOperation[c].kind = "rejected"
        /\ fallbackOperation[c].kind = "rejected"
        /\ FallbackDone(c)
        /\ fResult[c].status = "rejected"

(***************************************************************************)
(* Concurrent calls of retryOperation.                                     *)
(***************************************************************************)
\* The first invocation among the maxRetries allowed at which the operation
\* of call c succeeds, 0 when there is none: a function of the arguments of
\* the call alone.
FirstSuccess(c) ==
    LET S == {i \in 1 .. maxRetries[c] : ~Failed(OutcomeAt(c, i))} IN
    IF S = {} THEN 0 ELSE CHOOSE i \in S : \A j \in S : i <= j

\* What a call running alone ends with, from its own arguments.
OwnInvocations(c) ==
    IF FirstSuccess(c) = 0 THEN maxRetries[c] ELSE FirstSuccess(c)

OwnAttempts(c) ==
    IF FirstSuccess(c) = 0 THEN maxRetries[c] ELSE FirstSuccess(c) - 1

OwnResult(c) ==
    IF FirstSuccess(c) = 0
      THEN Rejected("Operation failed after " \o ToString(maxRetries[c])
                      \o " attempts: " \o OutcomeAt(c, maxRetries[c]).payload)
      ELSE Fulfilled(OutcomeAt(c, FirstSuccess(c)).payload)

\* A step leaves every call but one as it is.
OneCallSteps ==
    \E c \in RetryCalls : \A d \in RetryCalls \ {c} :
        /\ attempt'[d] = attempt[d] /\ opCalls'[d] = opCalls[d]
        /\ opInFlight'[d] = opInFlight[d] /\ waits'[d] = waits[d]
        /\ rpc'[d] = rpc[d] /\ rResult'[d] = rResult[d]

\* C21: overlapping calls of retryOperation share no state: under every
\* interleaving the attempt counter of a call counts the failures of its own
\* operation only, a step of one call changes nothing of the other, and the
\* number of invocations, the attempt counter and the outcome a call ends
\* with are those its own maxRetries and its own operation give.
C21_CallsAreIndependent ==
    /\ [](\A c \in RetryCalls :
              /\ attempt[c] = FailuresCaught(c)
              /\ opCalls[c] <= OwnInvocations(c)
              /\ RetryDone(c) =>
                     /\ opCalls[c] = OwnInvocations(c)
                     /\ attempt[c] = OwnAttempts(c)
                     /\ rResult[c] = OwnResult(c))
    /\ [][OneCallSteps]_vars

C21_Witness ==
    /\ RetryCalls = {1, 2}
    /\ rpc[1] = "await_timer" /\ attempt[1] = 2
    /\ rpc[2] = "await_op" /\ attempt[2] = 0 /\ opCalls[2] = 1

(***************************************************************************)
(* Behaviour of the tracker.                                               *)
(***************************************************************************)
\* C22: the bookkeeping is done before the outcome is forwarded: from the
\* moment the tracked promise of an operation has settled, which is the
\* earliest its caller can observe the value or the reason, the record of
\* the operation is in the completed sequence and its name (when no other
\* operation was registered under it) is no longer in the pending set.
C22_BookkeepingFirst ==
    \A op \in Registered :
        trackedResult[op].status # "pending" =>
            /\ \E i \in DOMAIN completedOperations :
                   completedOperations[i] = ExpectedRecord(op)
            /\ TimesRegistered(opName[op]) = 1 =>
                   opName[op] \notin pendingOperations

C22_Witness ==
    \E a, b \in Registered :
        /\ trackedResult[a].status = "fulfilled"
        /\ opName[a] \notin pendingOperations
        /\ opName[a] \in CompletedNames
        /\ trackedResult[b].status = "pending"
        /\ opName[b] \in pendingOperations

(***************************************************************************)
(* raceConditionsDebugging (promises.js, lines 321-355).                   *)
(*                                                                         *)
(* The three calls of increment are made one after the other while the     *)
(* array passed to Promise.all is built; each runs up to its await, where  *)
(* it has read sharedResource and set its timer.  The timers fire in the   *)
(* order of their delays, timers of one delay in the order they were set,  *)
(* and a task resumed by its timer writes before the next timer fires.     *)
(* Positions of a task: "sleeping" at the await, "resumed" when its timer  *)
(* has fired, "done" after the write.                                      *)
(***************************************************************************)
NumTasks == 3

\* The delays of the three calls (lines 348-350) as a set: a call may be
\* given any of them.
RaceDelays == {50, 75, 100}

Tasks == DOMAIN incPc

\* Mutant of IncrementWrite: sharedResource is read again after the await.
IncrementWrite_Reread(t) == sharedResource + 1

\* sharedResource = current + 1
IncrementWrite(t) == incCurrent[t] + 1

\* The timer of task t fires before that of task u.
FiresBefore(t, u) ==
    \/ incDelay[t] < incDelay[u]
    \/ incDelay[t] = incDelay[u] /\ t < u

\* increment(id, delay) is called (lines 327-335): const current =
\* sharedResource, then the timer is set and the task waits.
IncrementStarts ==
    /\ Len(incPc) < NumTasks
    /\ incCurrent' = Append(incCurrent, sharedResource)
    /\ incPc' = Append(incPc, "sleeping")
    /\ UNCHANGED <<sharedResource, incDelay>>
    /\ UNCHANGED <<retryVars, fallbackVars, trackerVars, monitorVars,
                   bankVars, masterVars>>

\* The timer of task t fires (line 335), after the calls have all been made.
IncrementTimerFires(t) ==
    /\ Len(incPc) = NumTasks
    /\ incPc[t] = "sleeping"
    /\ \A u \in Tasks : incPc[u] # "resumed"
    /\ \A u \in Tasks \ {t} : incPc[u] = "sleeping" => FiresBefore(t, u)
    /\ incPc' = [incPc EXCEPT ![t] = "resumed"]
    /\ UNCHANGED <<sharedResource, incDelay, incCurrent>>
    /\ UNCHANGED <<retryVars, fallbackVars, trackerVars, monitorVars,
                   bankVars, masterVars>>

\* Task t goes on after the await (lines 338-339).
IncrementResumes(t) ==
    /\ incPc[t] = "resumed"
    /\ sharedResource' = IncrementWrite(t)
    /\ incPc' = [incPc EXCEPT ![t] = "done"]
    /\ UNCHANGED <<incDelay, incCurrent>>
    /\ UNCHANGED <<retryVars, fallbackVars, trackerVars, monitorVars,
                   bankVars, masterVars>>

\* let sharedResource = 0 (line 325), no task started yet.
RaceInit ==
    /\ sharedResource = 0
    /\ incDelay \in [1 .. NumTasks -> RaceDelays]
    /\ incCurrent = <<>>
    /\ incPc = <<>>
    /\ NoRetryCalls /\ NoFallbackCalls /\ NoTracker
    /\ NoMonitor /\ NoBank /\ NoMaster

RaceNext ==
    \/ IncrementStarts
    \/ \E t \in Tasks : IncrementTimerFires(t)
    \/ \E t \in Tasks : IncrementResumes(t)

SpecRace == RaceInit /\ [][RaceNext]_vars

(***************************************************************************)
(* BankAccount (part_001, lines 269-320).  The timestamp of a transaction  *)
(* is left out.  deposited, withdrawn and bankCall are not fields of the   *)
(* object: they record what the calls made so far were and did.            *)
(***************************************************************************)
MaxAmount == 2
MaxInitialBalance == 2
MaxBankCalls == 3

Amounts == -1 .. MaxAmount

InitialBalances == -1 .. MaxInitialBalance

\* Mutant of InsufficientFunds: the balance is not looked at.
InsufficientFunds_Unchecked(amount) == FALSE

\* if (amount > this.balance)
InsufficientFunds(amount) == amount > balance

\* A method throws the Error whose message is msg: no field is written.
BankThrows(method, amount, msg) ==
    /\ bankCall' = [n |-> bankCall.n + 1, method |-> method,
                    amount |-> amount, threw |-> msg]
    /\ UNCHANGED <<balance, transactions, deposited, withdrawn>>

\* deposit(amount) (lines 278-296)
Deposit(amount) ==
    /\ bankCall.n < MaxBankCalls
    /\ IF amount <= 0
         THEN BankThrows("deposit", amount, "Deposit amount must be positive")
         ELSE /\ balance' = balance + amount
              /\ transactions' =
                     Append(transactions,
                            [type |-> "deposit", amount |-> amount,
                             balanceAfter |-> balance + amount])
              /\ deposited' = deposited + amount
              /\ bankCall' = [n |-> bankCall.n + 1, method |-> "deposit",
                              amount |-> amount, threw |-> "none"]
              /\ UNCHANGED withdrawn
    /\ UNCHANGED initialBalance
    /\ UNCHANGED <<retryVars, fallbackVars, trackerVars, monitorVars,
                   raceVars, masterVars>>

\* withdraw(amount) (lines 298-319)
Withdraw(amount) ==
    /\ bankCall.n < MaxBankCalls
    /\ IF amount <= 0
         THEN BankThrows("withdraw", amount,
                         "Withdrawal amount must be positive")
         ELSE IF InsufficientFunds(amount)
         THEN BankThrows("withdraw", amount, "Insufficient funds")
         ELSE /\ balance' = balance - amount
              /\ transactions' =
                     Append(transactions,
                            [type |-> "withdrawal", amount |-> amount,
                             balanceAfter |-> balance - amount])
              /\ withdrawn' = withdrawn + amount
              /\ bankCall' = [n |-> bankCall.n + 1, method |-> "withdraw",
                              amount |-> amount, threw |-> "none"]
              /\ UNCHANGED deposited
    /\ UNCHANGED initialBalance
    /\ UNCHANGED <<retryVars, fallbackVars, trackerVars, monitorVars,
                   raceVars, masterVars>>

\* new BankAccount(owner, initialBalance) (lines 270-276)
BankInit ==
    /\ initialBalance \in InitialBalances
    /\ balance = initialBalance
    /\ transactions = <<>>
    /\ deposited = 0 /\ withdrawn = 0
    /\ bankCall = NoCall
    /\ NoRetryCalls /\ NoFallbackCalls /\ NoTracker
    /\ NoMonitor /\ NoRace /\ NoMaster

BankNext ==
    \/ \E amount \in Amounts : Deposit(amount)
    \/ \E amount \in Amounts : Withdraw(amount)

SpecBank == BankInit /\ [][BankNext]_vars

(***************************************************************************)
(* DebugMaster (index.js, lines 23-132).                                   *)
(*                                                                         *)
(* Positions of a runDemo call: "idle" before any call, "await_run"        *)
(* suspended at `await module.module.run()`, "done" once the promise it    *)
(* returned has settled.  Positions of the runAllDemos call: "idle",       *)
(* "await_runDemo", "await_delay", "done", and "failed" were the awaited   *)
(* runDemo call to reject.                                                 *)
(***************************************************************************)
MaxDemoCalls == 2

\* The keys of this.modules in the order setupModules sets them
\* (lines 34-58).
Modules == <<"console", "errors", "async", "performance">>

ModuleNames == {Modules[i] : i \in DOMAIN Modules}

DemoNames == ModuleNames \cup {"unknown"}

\* What calling the run method of a module can come to: there is no such
\* method, the call throws, or it returns a promise.
RunKinds == {"nofunction", "thrown", "promise"}

\* `Demo '${demoName}' not found`
NotFoundMessage(demoName) == "Demo '" \o demoName \o "' not found"

\* Mutant of RunDemoCatch: the error is thrown again.
RunDemoCatch_Rethrow(msg) == Rejected(msg)

\* The catch block of runDemo (lines 88-92), entered with an Error whose
\* message is msg: the message is logged and the
\* function ends normally.
RunDemoCatch(msg) == Fulfilled(Undefined)

\* The body of runDemo(demoName) up to its first await or its end
\* (lines 68-87).
RunDemo(demoName, caller) ==
    /\ demoArg' = demoName
    /\ demoCaller' = caller
    /\ IF demoName \notin ModuleNames
         THEN /\ demoResult' = Rejected(NotFoundMessage(demoName))
              /\ demoPc' = "done"
              /\ UNCHANGED <<currentDemo, runState, demoErrors>>
         ELSE /\ currentDemo' = demoName
              /\ \E kind \in RunKinds :
                     CASE kind = "nofunction" ->
                              /\ demoResult' = Fulfilled(Undefined)
                              /\ demoPc' = "done"
                              /\ runState' = "none"
                              /\ UNCHANGED demoErrors
                       [] kind = "thrown" ->
                              /\ demoResult' = RunDemoCatch("thrown")
                              /\ demoPc' = "done"
                              /\ runState' = "none"
                              /\ demoErrors' = demoErrors \cup {demoName}
                       [] kind = "promise" ->
                              /\ demoResult' = PendingResult
                              /\ demoPc' = "await_run"
                              /\ runState' = "pending"
                              /\ UNCHANGED demoErrors

\* runDemo(demoName) is called from outside the class, as main would
\* (line 236), when no call is in progress.
RunDemoCall(demoName) ==
    /\ demoCalls < MaxDemoCalls
    /\ demoPc \in {"idle", "done"}
    /\ allPc \in {"idle", "done", "failed"}
    /\ demoCalls' = demoCalls + 1
    /\ RunDemo(demoName, "main")
    /\ UNCHANGED <<allPc, allIndex, demoLog>>
    /\ UNCHANGED <<retryVars, fallbackVars, trackerVars, monitorVars,
                   raceVars, bankVars>>

\* The promise the run method returned settles.
RunSettles(status) ==
    /\ runState = "pending"
    /\ runState' = status
    /\ UNCHANGED <<currentDemo, demoArg, demoPc, demoResult, demoCaller,
                   demoCalls, allPc, allIndex, demoLog, demoErrors>>
    /\ UNCHANGED <<retryVars, fallbackVars, trackerVars, monitorVars,
                   raceVars, bankVars>>

\* The runDemo call resumes after `await module.module.run()` (line 84).
RunDemoResumes ==
    /\ demoPc = "await_run"
    /\ runState \in {"fulfilled", "rejected"}
    /\ demoResult' = IF runState = "fulfilled" THEN Fulfilled(Undefined)
                                                ELSE RunDemoCatch("rejected")
    /\ demoErrors' = IF runState = "fulfilled" THEN demoErrors
                                                ELSE demoErrors \cup {demoArg}
    /\ demoPc' = "done"
    /\ runState' = "none"
    /\ UNCHANGED <<currentDemo, demoArg, demoCaller, demoCalls, allPc,
                   allIndex, demoLog>>
    /\ UNCHANGED <<retryVars, fallbackVars, trackerVars, monitorVars,
                   raceVars, bankVars>>

\* The for loop of runAllDemos takes the next entry of this.modules and
\* calls runDemo, or ends (lines 115-123).
AllIterate ==
    IF allIndex < Len(Modules)
      THEN /\ allIndex' = allIndex + 1
           /\ demoLog' = Append(demoLog, Modules[allIndex + 1])
           /\ RunDemo(Modules[allIndex + 1], "runAllDemos")
           /\ allPc' = "await_runDemo"
      ELSE /\ allPc' = "done"
           /\ UNCHANGED <<currentDemo, demoArg, demoPc, demoResult,
                          demoCaller, runState, allIndex, demoLog,
                          demoErrors>>

\* runAllDemos() is called, as main would (line 239).
RunAllDemos ==
    /\ allPc = "idle"
    /\ demoPc \in {"idle", "done"}
    /\ AllIterate
    /\ UNCHANGED demoCalls
    /\ UNCHANGED <<retryVars, fallbackVars, trackerVars, monitorVars,
                   raceVars, bankVars>>

\* runAllDemos resumes after `await this.runDemo(demoName)` (line 117) and
\* calls this.delay(1000), or fails with the rejection of runDemo.
AllResumes ==
    /\ allPc = "await_runDemo"
    /\ demoPc = "done"
    /\ allPc' = IF demoResult.status = "rejected" THEN "failed"
                                                  ELSE "await_delay"
    /\ UNCHANGED <<currentDemo, demoArg, demoPc, demoResult, demoCaller,
                   demoCalls, runState, allIndex, demoLog, demoErrors>>
    /\ UNCHANGED <<retryVars, fallbackVars, trackerVars, monitorVars,
                   raceVars, bankVars>>

\* The timer of this.delay(1000) fires (line 120): the loop goes round.
AllDelayFires ==
    /\ allPc = "await_delay"
    /\ AllIterate
    /\ UNCHANGED demoCalls
    /\ UNCHANGED <<retryVars, fallbackVars, trackerVars, monitorVars,
                   raceVars, bankVars>>

\* new DebugMaster() (lines 24-28)
MasterInit ==
    /\ NoMaster
    /\ NoRetryCalls /\ NoFallbackCalls /\ NoTracker
    /\ NoMonitor /\ NoRace /\ NoBank

MasterNext ==
    \/ \E demoName \in DemoNames : RunDemoCall(demoName)
    \/ \E status \in {"fulfilled", "rejected"} : RunSettles(status)
    \/ RunDemoResumes
    \/ RunAllDemos
    \/ AllResumes
    \/ AllDelayFires

\* The run method of a demo finishes and timers fire.
SpecMaster == MasterInit /\ [][MasterNext]_vars /\ WF_vars(MasterNext)

\* The callback that records the settlement of operation op has run.
Recorded(op) ==
    \/ thenState[op].status = "fulfilled"
    \/ trackedResult[op].status = "rejected"

\* The registered operations that share the name of operation op.
Namesakes(op) == {b \in Registered : opName[b] = opName[op]}

\* C23: nothing is deduplicated when a name is registered more than once:
\* every settlement appends a record of its own, so a name has as many
\* records as operations registered under it have been recorded (two once
\* both of two have), and the callback of one settlement removes the name
\* from the pending set even while another operation registered under the
\* same name is still in flight.
C23_NoDeduplication ==
    /\ [](\A op \in Registered :
              Cardinality(RecordsOf(opName[op]))
                  = Cardinality({b \in Namesakes(op) : Recorded(b)}))
    /\ [][\A op \in Registered :
              (~Recorded(op) /\ Recorded(op)') =>
                  opName[op] \notin pendingOperations']_vars

C23_Witness ==
    \E a, b \in Registered :
        /\ a # b /\ opName[a] = opName[b]
        /\ Recorded(a) /\ Cardinality(RecordsOf(opName[a])) = 1
        /\ opState[b] = "pending"
        /\ pendingOperations = {}

\* What a run of monitor must do, by the pending set it finds.
MonitorStepsProperly ==
    /\ (monitorTicks' # monitorTicks /\ pendingOperations # {}) =>
           (monitorTimers' = 1 /\ monitorReports' = monitorReports)
    /\ (monitorTicks' # monitorTicks /\ pendingOperations = {}) =>
           (monitorTimers' = 0 /\ monitorReports' = 1)
    /\ monitorReports' # monitorReports =>
           (pendingOperations = {} /\ monitorReports' = 1
               /\ monitorTimers' = 0)

MonitorAtMostOnce ==
    /\ monitorTimers <= 1
    /\ monitorReports <= 1
    /\ monitorReports = 1 => monitorTimers = 0

Unsettled(op) == op \in Registered /\ opState[op] = "pending"

MonitorPolling == monitorTimers = 1 /\ monitorReports = 0

MonitorReported == monitorTimers = 0 /\ monitorReports = 1

\* The statement of C24 as the specification has it: the monitor goes on
\* polling as long as any tracked operation is in flight.
C24_PollsWhileAnyUnsettled ==
    /\ [][MonitorStepsProperly]_vars
    /\ []MonitorAtMostOnce
    /\ MonitorPolling ~> MonitorReported
    /\ [][\A op \in Registered :
              (MonitorPolling /\ Unsettled(op) /\ Unsettled(op)') =>
                  MonitorPolling']_vars

\* C24: a run of monitor that finds a name pending sets exactly one timer
\* and one that finds none reports, once, and sets no timer, whatever is
\* registered later; when every tracked operation settles the monitor
\* reports and stops; and it goes on polling as long as an operation that
\* is the only one registered under its name is in flight, for ever when
\* that operation never settles.
C24_PollsWhileNameUnsettled ==
    /\ [][MonitorStepsProperly]_vars
    /\ []MonitorAtMostOnce
    /\ MonitorPolling ~> MonitorReported
    /\ [][\A op \in Registered :
              (MonitorPolling /\ Unsettled(op) /\ Unsettled(op)'
                  /\ TimesRegistered(opName[op])' = 1) =>
                  MonitorPolling']_vars

C24_Witness ==
    \E op \in Registered :
        /\ Unsettled(op)
        /\ TimesRegistered(opName[op]) = 1
        /\ monitorTicks = MaxTicks
        /\ MonitorPolling
        /\ \E b \in Registered : Recorded(b)

\* The calls of createTrackedPromise whose factory threw.
Threw == {op \in TrackedCalls : opState[op] = "threw"}

\* C25: a call of createTrackedPromise whose factory throws leaves the
\* pending set and the completed sequence as they were; the call returns no
\* promise, nothing of it is ever queued or recorded, and a name is pending
\* or completed only through a call whose factory returned a promise.
C25_FactoryThrowsFirst ==
    /\ [][(Len(opName') = Len(opName) + 1
              /\ opState'[Len(opName')] = "threw") =>
             UNCHANGED <<pendingOperations, completedOperations>>]_vars
    /\ [](\A op \in Threw :
              /\ thenState[op] = PendingResult
              /\ trackedResult[op] = PendingResult
              /\ \A i \in DOMAIN jobs : jobs[i][1] # op)
    /\ [](\A name \in pendingOperations \cup CompletedNames :
              TimesRegistered(name) >= 1)

C25_Witness ==
    \E a \in Threw : \E b \in Registered :
        /\ b < a
        /\ opState[b] = "pending"
        /\ pendingOperations = {opName[b]}
        /\ opName[a] \notin pendingOperations
        /\ completedOperations = <<>>

\* C26: a retryOperation call with maxRetries <= 0 never invokes its
\* operation, sets no timer and never rejects: the promise it returned is
\* resolved with undefined, and that is where the call ends.
C26_NoBudgetNoInvocation ==
    /\ [](\A c \in RetryCalls :
              maxRetries[c] <= 0 =>
                  /\ opCalls[c] = 0 /\ attempt[c] = 0 /\ waits[c] = <<>>
                  /\ rResult[c] \in {PendingResult, Fulfilled(Undefined)}
                  /\ RetryDone(c) <=> rResult[c] = Fulfilled(Undefined))
    /\ <>(\A c \in RetryCalls : maxRetries[c] <= 0 => RetryDone(c))

C26_Witness ==
    \E c \in RetryCalls :
        /\ maxRetries[c] < 0
        /\ AlwaysFails(c)
        /\ RetryDone(c)
        /\ opCalls[c] = 0
        /\ rResult[c] = Fulfilled(Undefined)

\* An invocation of the operation of retry call c that throws is made in
\* this step.
ThrowingInvocation(c) ==
    /\ opCalls'[c] = opCalls[c] + 1
    /\ OutcomeAt(c, opCalls'[c]).kind = "thrown"

\* What the catch block of retryOperation does with a failure whose message
\* is msg.
CountedAsFailedAttempt(c, msg) ==
    /\ attempt'[c] = attempt[c] + 1
    /\ IF attempt'[c] >= maxRetries[c]
         THEN /\ rResult'[c] = Rejected("Operation failed after "
                                  \o ToString(maxRetries[c]) \o " attempts: "
                                  \o msg)
              /\ waits'[c] = waits[c]
         ELSE /\ rResult'[c] = PendingResult
              /\ waits'[c] = Append(waits[c], BaseDelay * attempt'[c])

\* C27: an operation that throws when invoked is handled as one that
\* returns a rejected promise.  In retryOperation the throw is counted as a
\* failed attempt (attempt goes up by one, then the call fails for good or
\* sets the backoff timer) and the call ends as its arguments say when only
\* success and failure of each invocation are told apart; in withFallback a
\* throw of the primary makes the call invoke the fallback, and the call
\* ends with the fallback's value or the failure naming both reasons.
C27_ThrowIsRejection ==
    /\ [][\A c \in RetryCalls :
              ThrowingInvocation(c) =>
                  CountedAsFailedAttempt(c, OutcomeAt(c, opCalls'[c]).payload)]_vars
    /\ [](\A c \in RetryCalls :
              (maxRetries[c] >= 1 /\ RetryDone(c)) =>
                  /\ rResult[c] = OwnResult(c)
                  /\ attempt[c] = OwnAttempts(c)
                  /\ opCalls[c] = OwnInvocations(c))
    /\ [][\A c \in FallbackCalls :
              (primaryCalls'[c] = primaryCalls[c] + 1
                  /\ primaryOperation[c].kind = "thrown") =>
                  (fallbackCalls[c] = 0 /\ fallbackCalls'[c] = 1)]_vars
    /\ [](\A c \in FallbackCalls :
              (Failed(primaryOperation[c]) /\ FallbackDone(c)) =>
                  /\ fallbackCalls[c] = 1
                  /\ fResult[c] =
                         IF Failed(fallbackOperation[c])
                           THEN Rejected("Both operations failed. Primary: "
                                    \o primaryOperation[c].payload
                                    \o ", Fallback: "
                                    \o fallbackOperation[c].payload)
                           ELSE Fulfilled(fallbackOperation[c].payload))

C27_Witness ==
    \E c \in RetryCalls :
        /\ maxRetries[c] = DefaultMaxRetries
        /\ operation[c][1].kind = "thrown"
        /\ operation[c][2].kind = "rejected"
        /\ operation[c][3].kind = "thrown"
        /\ RetryDone(c)
        /\ attempt[c] = DefaultMaxRetries
        /\ waits[c] = <<BaseDelay, 2 * BaseDelay>>
        /\ rResult[c] = Rejected("Operation failed after 3 attempts: "
                                     \o operation[c][3].payload)

AllTasksDone ==
    Len(incPc) = NumTasks /\ \A t \in Tasks : incPc[t] = "done"

\* C28: every increment task reads 0 from sharedResource, because the three
\* are started before any of them writes; so every write stores 1, and once
\* the three tasks are done sharedResource is 1, not 3, in whatever order
\* their timers fired.
C28_LostUpdate ==
    /\ \A t \in Tasks : incCurrent[t] = 0
    /\ (\E t \in Tasks : incPc[t] # "sleeping") => Len(incPc) = NumTasks
    /\ sharedResource \in {0, 1}
    /\ (\E t \in Tasks : incPc[t] = "done") => sharedResource = 1
    /\ AllTasksDone => (sharedResource = 1 /\ sharedResource # NumTasks)

C28_Witness ==
    /\ incDelay = <<100, 50, 75>>
    /\ AllTasksDone
    /\ sharedResource = 1

\* A call of a method of the account is made in this step.
BankCallStep == bankCall'.n = bankCall.n + 1

\* The call made in this step is one the account must refuse.
RefusedCall ==
    \/ bankCall'.amount <= 0
    \/ bankCall'.method = "withdraw" /\ bankCall'.amount > balance

\* C29: the balance is the initial balance plus the deposits minus the
\* withdrawals that returned, and with a non-negative initial balance it is
\* never negative; a call with a non-positive amount, or a withdrawal of
\* more than the balance, throws and leaves balance and transactions as they
\* were; any other call throws nothing, changes the balance by its amount
\* and appends one transaction whose balanceAfter is the new balance.
C29_AccountInvariant ==
    /\ [](balance = initialBalance + deposited - withdrawn)
    /\ [](initialBalance >= 0 => balance >= 0)
    /\ [][(BankCallStep /\ RefusedCall) =>
             /\ bankCall'.threw # "none"
             /\ UNCHANGED <<balance, transactions>>]_vars
    /\ [][(BankCallStep /\ ~RefusedCall) =>
             /\ bankCall'.threw = "none"
             /\ balance' = IF bankCall'.method = "deposit"
                             THEN balance + bankCall'.amount
                             ELSE balance - bankCall'.amount
             /\ Len(transactions') = Len(transactions) + 1
             /\ SubSeq(transactions', 1, Len(transactions)) = transactions
             /\ transactions'[Len(transactions')].balanceAfter = balance'
             /\ transactions'[Len(transactions')].amount = bankCall'.amount]_vars

C29_Witness ==
    /\ initialBalance >= 0
    /\ bankCall.n = MaxBankCalls
    /\ bankCall.method = "withdraw"
    /\ bankCall.threw = "Insufficient funds"
    /\ Len(transactions) = 2
    /\ transactions[1].type = "deposit"
    /\ transactions[2].type = "withdrawal"
    /\ balance = transactions[2].balanceAfter

\* A runDemo call is made in this step.
RunDemoStarts ==
    \/ demoCalls' = demoCalls + 1
    \/ allIndex' = allIndex + 1

\* C30: a runDemo call for a name that is not registered rejects with the
\* not-found error and leaves currentDemo as it was; a call for a
\* registered name sets currentDemo to the name, never rejects and
\* resolves once the run method of the demo is through, whether that
\* succeeded, threw or rejected.  runAllDemos calls runDemo for the
\* registered names in registration order, each call after the one before
\* has settled, never fails and ends after the last name.
C30_DemosRunInTurn ==
    /\ [][(RunDemoStarts /\ demoArg' \notin ModuleNames) =>
             /\ demoResult' = Rejected("Demo '" \o demoArg' \o "' not found")
             /\ currentDemo' = currentDemo]_vars
    /\ [][(RunDemoStarts /\ demoArg' \in ModuleNames) =>
             /\ currentDemo' = demoArg'
             /\ demoResult'.status # "rejected"]_vars
    /\ [](demoArg \in ModuleNames =>
             /\ demoResult.status # "rejected"
             /\ demoPc = "done" <=> demoResult = Fulfilled(Undefined))
    /\ (demoPc = "await_run") ~> (demoPc = "done")
    /\ [][allIndex' = allIndex + 1 =>
             /\ demoPc \in {"idle", "done"}
             /\ demoArg' = Modules[allIndex']
             /\ demoCaller' = "runAllDemos"]_vars
    /\ [](/\ allPc # "failed"
          /\ demoLog = SubSeq(Modules, 1, allIndex)
          /\ allPc = "done" => demoLog = Modules)
    /\ (allPc = "await_runDemo") ~> (allPc = "done")

C30_Witness ==
    /\ allPc = "done"
    /\ demoLog = Modules
    /\ currentDemo = Modules[Len(Modules)]
    /\ Modules[1] \in demoErrors
    /\ Modules[Len(Modules)] \notin demoErrors

====
